---------------------------- MODULE Spec2Model ----------------------------
(***************************************************************************)
(* A model of the fork risk calculator, scripts/calculate-fork-risk.ts:    *)
(* one run of main(), from the first liveness probe to process.exit.       *)
(*                                                                         *)
(* Every await, and every turn of a loop, is one step.  The answers of the  *)
(* outside world (RPC probes, the manifest read, contract calls, log       *)
(* queries, file writes) are nondeterministic; the dispute events on       *)
(* chain, with the answer their market gives to isFinalized(), are fixed   *)
(* by Init.                                                                *)
(*                                                                         *)
(* Amounts of REP are kept in the token's smallest unit ("wei"), scaled    *)
(* down to WeiPerRep units per REP.  A percentage p is kept as the integer *)
(* p * PctDen, so that (bond / FORK_THRESHOLD_REP) * 100 is exact.         *)
(***************************************************************************)
EXTENDS Integers, Sequences, FiniteSets, TLC

(***************************************************************************)
(* Program constants.                                                      *)
(***************************************************************************)
FORK_THRESHOLD_REP == 201715

PUBLIC_RPC_ENDPOINTS ==
    << "https://eth.llamarpc.com",
       "https://main-light.eth.linkpool.io",
       "https://ethereum.publicnode.com",
       "https://1rpc.io/eth" >>

RISK_LEVELS == [LOW |-> 10, MODERATE |-> 25, HIGH |-> 75, CRITICAL |-> 75]

blocksPerDay == 7200

searchDays == 7

searchPeriod == searchDays * blocksPerDay

chunkSize == 1000

initialBondRep == 625

topDisputes == 10

topDetails == 5

ManifestEntries == {"universe", "augur", "repV2Token", "cash"}

(***************************************************************************)
(* Bounds of the model.                                                    *)
(***************************************************************************)
\* units of the smallest token unit per REP (10^18 on chain)
WeiPerRep == 20

\* the height of the chain during the run
HeadBlock == 20000000

\* the longest generated chain of dispute events
MaxEvents == 12

\* chunk queries that may fail: the first FlakyChunks ones and the last one
FlakyChunks == 2

(***************************************************************************)
(* Arithmetic.                                                             *)
(***************************************************************************)
Min(a, b) == IF a <= b THEN a ELSE b

Max(a, b) == IF a >= b THEN a ELSE b

\* n REP in wei
Rep(n) == n * WeiPerRep

\* the denominator of a percentage: the percentage p is the integer p * PctDen
PctDen == FORK_THRESHOLD_REP * WeiPerRep

Pct(p) == p * PctDen

\* the ratio without its factor 100
ThresholdFraction(bondWei) == bondWei

\* (bondWei / 10^18 / FORK_THRESHOLD_REP) * 100, as a multiple of 1 / PctDen
ThresholdPercent(bondWei) == bondWei * 100

\* Math.round(p * 100) / 100, in hundredths of a percent
RoundHundredths(p) ==
    LET q == p \div PctDen
        r == p % PctDen
    IN  q * 100 + ((r * 200 + PctDen) \div (2 * PctDen))

RECURSIVE CeilLog2Ratio(_, _, _)
\* Math.ceil(Math.log2(num / den)) where it is positive: the least r with
\* 2^r * den >= num; 0 stands for every value <= 0, -Infinity included
CeilLog2Ratio(num, den, r) ==
    IF den >= num THEN r ELSE CeilLog2Ratio(num, 2 * den, r + 1)

\* the estimate without its floor of 1
EstimateRoundUnfloored(bondWei) ==
    CeilLog2Ratio(bondWei, Rep(initialBondRep), 0)

\* Math.max(1, Math.ceil(Math.log2(bondSizeRep / initialBondRep)))
EstimateRound(bondWei) ==
    Max(1, CeilLog2Ratio(bondWei, Rep(initialBondRep), 0))

(***************************************************************************)
(* The chain: the DisputeCrowdsourcerCreated logs of the augur contract,   *)
(* in block order.  shape says what the log decodes to: "ok" (six          *)
(* arguments), "short" (fewer than six), "throws" (an argument that makes  *)
(* the conversion throw) or "undecoded" (not an ethers.EventLog).  lookup  *)
(* is what the market contract does when asked isFinalized().              *)
(***************************************************************************)
Shapes == {"ok", "short", "throws", "undecoded"}

Lookups == {"active", "finalized", "throws"}

Event(back, m, bond, shape, lookup) ==
    [block |-> HeadBlock - back, market |-> m, bondWei |-> bond,
     shape |-> shape, lookup |-> lookup]

\* the percentages whose neighbourhood the one-event chains cover
PercentCases == {0, 10, 25, 75, 100, 150}

BoundaryBonds ==
    {b \in {(p * PctDen) \div 100 + d : p \in PercentCases, d \in {-1, 0, 1}} :
        b >= 0}

BoundaryChains ==
    {<<Event(100, "0xB", b, "ok", "active")>> : b \in BoundaryBonds}

ShapeChains ==
    {<<Event(100, "0xS", Rep(30000), s, l)>> :
        s \in Shapes, l \in Lookups}

\* events on both sides of every edge of the window and of the first chunks
SpreadBacks ==
    << searchPeriod + 1, searchPeriod, searchPeriod - chunkSize + 1,
       searchPeriod - chunkSize, searchPeriod - 2 * chunkSize - 400,
       searchPeriod % chunkSize, 0 >>

SpreadChain(pat) ==
    [i \in 1..Len(SpreadBacks) |->
        Event(SpreadBacks[i], "0xC", Rep(10000 * ((i * pat) % 8)), "ok",
              IF (i + pat) % 4 = 0 THEN "finalized"
              ELSE IF (i + pat) % 4 = 1 THEN "throws" ELSE "active")]

SpreadChains == {SpreadChain(pat) : pat \in {1, 3}}

\* the largest bond of a generated chain, in units of BondStepRep
Modulus == 13

BondStepRep == 20000

GenLookup(pat, i) ==
    IF pat = 0 THEN "active"
    ELSE IF i % 3 = 0 THEN "finalized"
    ELSE IF i % 3 = 1 THEN "throws" ELSE "active"

\* n events, 100 blocks apart up to the head, bonds scrambled by stride
GenChain(n, stride, pat) ==
    [i \in 1..n |->
        Event((n - i) * 100, "0xG",
              Rep(BondStepRep * ((i * stride) % Modulus)), "ok",
              GenLookup(pat, i))]

GenChains ==
    {GenChain(n, stride, pat) :
        n \in 0..MaxEvents, stride \in {1, 5, 12}, pat \in {0, 1}}

\* two markets with bonds of the same size below a larger one
TieChains ==
    { << Event(300, "0xA", Rep(30000), "ok", "active"),
         Event(200, "0xB", Rep(30000), "ok", "throws"),
         Event(100, "0xC", Rep(50000), "ok", "active") >> }

Chains ==
    BoundaryChains \cup ShapeChains \cup SpreadChains \cup GenChains
        \cup TieChains

\* the range without its last block
queryFilterExclusive(logs, start, end) ==
    SelectSeq(logs, LAMBDA e : start <= e.block /\ e.block < end)

\* contract.queryFilter(filter, start, end): the logs of the range, in order
queryFilter(logs, start, end) ==
    SelectSeq(logs, LAMBDA e : start <= e.block /\ e.block <= end)

(***************************************************************************)
(* The state of one run.                                                   *)
(***************************************************************************)
VARIABLES
    pc,                 \* the await the run is at
    ETH_RPC_URL,        \* the environment variable, "" when unset
    chain,              \* the logs on chain
    rpcIdx,             \* getWorkingProvider: the index of rpc in the list
    fallbacksAttempted, \* getWorkingProvider: the failure counter
    probed,             \* the probes issued so far, with their outcome
    rpcCalls,           \* the endpoints that served a call after the probes
    connection,         \* calculateForkRisk: << >> or <<the RpcConnection>>
    manifest,           \* what loadContracts read from augur-abis.json
    contracts,          \* the names of the bound contract handles
    blockNumber,        \* calculateForkRisk: << >> or <<the block number>>
    forkCheck,          \* the answer of universe.isForking(), "none" before
    currentBlock,       \* getActiveDisputes: the head of the window
    start,              \* getActiveDisputes: the chunk loop's variable
    inFlight,           \* the chunk queries issued and not yet settled
    queried,            \* the chunk queries settled so far, with their outcome
    allEvents,          \* getActiveDisputes: the events collected
    evIdx,              \* getActiveDisputes: the index of event in events
    disputes,           \* getActiveDisputes: the records pushed, in push order
    returnedDisputes,   \* what getActiveDisputes returned, << >> before
    results,            \* main: << >> or <<what calculateForkRisk returned>>
    caught,             \* main: << >> or <<the message of the error caught>>
    saveAttempts,       \* the artifacts saveResults was called with
    written,            \* the artifacts saveResults wrote completely
    file,               \* public/data/fork-risk.json: << >> or <<artifact>>
    exitCode,           \* -1 while running, then the code of process.exit
    isDemo,             \* DemoProvider: the isDemo state
    data,               \* ForkRiskContext: the data the page displays
    fetching,           \* resetToLive: the calls awaiting fetch
    parsing,            \* resetToLive: the calls awaiting response.json()
    clicks              \* the calls of the DemoContext functions so far

\* the variables of the calculation script
runVars ==
    << pc, ETH_RPC_URL, chain, rpcIdx, fallbacksAttempted, probed, rpcCalls,
       connection, manifest,
       contracts, blockNumber, forkCheck, currentBlock, start, inFlight,
       queried, allEvents, evIdx, disputes, returnedDisputes,
       results, caught, saveAttempts, written,
       file, exitCode >>

\* the variables of the page
pageVars == << isDemo, data, fetching, parsing, clicks >>

vars == << runVars, pageVars >>

\* GaugeDisplay.getRiskLevel: the label the gauge shows for a percentage
getRiskLevel(forkThresholdPercent) ==
    IF forkThresholdPercent < Pct(10) THEN "LOW"
    ELSE IF forkThresholdPercent < Pct(25) THEN "MODERATE"
    ELSE IF forkThresholdPercent < Pct(75) THEN "HIGH"
    ELSE "CRITICAL"

\* generateDemoForkRiskData: the level the demo data carry for a percentage
demoRiskLevel(forkThresholdPercent) ==
    IF forkThresholdPercent < Pct(10) THEN "low"
    ELSE IF forkThresholdPercent < Pct(25) THEN "moderate"
    ELSE IF forkThresholdPercent < Pct(75) THEN "high"
    ELSE "critical"

(***************************************************************************)
(* Risk scoring and the three results.                                     *)
(***************************************************************************)
determineRiskLevel(forkThresholdPercent) ==
    IF forkThresholdPercent > Pct(RISK_LEVELS.CRITICAL) THEN "critical"
    ELSE IF forkThresholdPercent >= Pct(RISK_LEVELS.HIGH) THEN "high"
    ELSE IF forkThresholdPercent >= Pct(RISK_LEVELS.MODERATE) THEN "moderate"
    ELSE "low"

RECURSIVE MaxBond(_)
MaxBond(ds) ==
    IF Len(ds) = 1 THEN ds[1].disputeBondSize
    ELSE Max(ds[1].disputeBondSize, MaxBond(Tail(ds)))

\* the maximum taken without the guard for the empty list
getLargestDisputeBondUnguarded(ds) ==
    IF Len(ds) = 0 THEN -1 ELSE MaxBond(ds)

getLargestDisputeBond(ds) ==
    IF Len(ds) = 0 THEN 0 ELSE MaxBond(ds)

\* Array.prototype.slice(0, n)
Slice(s, n) == SubSeq(s, 1, Min(n, Len(s)))

\* the place of record d in the sorted s: behind every record that is not
\* smaller (the sort is stable)
\* an insertion that puts d before the records of the same bond size
InsertDescTiesFirst(s, d) ==
    LET k == Cardinality({i \in 1..Len(s) :
                 s[i].disputeBondSize > d.disputeBondSize})
    IN  SubSeq(s, 1, k) \o <<d>> \o SubSeq(s, k + 1, Len(s))

InsertDesc(s, d) ==
    LET k == Cardinality({i \in 1..Len(s) :
                 s[i].disputeBondSize >= d.disputeBondSize})
    IN  SubSeq(s, 1, k) \o <<d>> \o SubSeq(s, k + 1, Len(s))

\* the list left in push order
Unsorted(s) == s

RECURSIVE SortDesc(_)
\* disputes.sort((a, b) => b.disputeBondSize - a.disputeBondSize)
SortDesc(s) ==
    IF Len(s) = 0 THEN << >>
    ELSE InsertDesc(SortDesc(SubSeq(s, 1, Len(s) - 1)), s[Len(s)])

\* the sorted list returned whole
ReturnDisputesUncapped(ds) == SortDesc(ds)

\* the tail of getActiveDisputes: sort, then the top ten
ReturnDisputes(ds) == Slice(SortDesc(ds), topDisputes)

\* the clamp without its upper bound
ClampLowerOnly(p) == Max(0, p)

\* Math.min(100, Math.max(0, riskPercentage))
ClampPercentage(p) == Min(Pct(100), Max(0, p))

\* calculateForkRisk from the return of getActiveDisputes to its own return
ScoreResult(activeDisputes, block, conn) ==
    LET largestDisputeBond == getLargestDisputeBond(activeDisputes)
        forkThresholdPercent == ThresholdPercent(largestDisputeBond)
        riskLevel == determineRiskLevel(forkThresholdPercent)
        riskPercentage == forkThresholdPercent
    IN  [ blockNumber |-> <<block>>,
          riskLevel |-> riskLevel,
          riskPercentage |-> ClampPercentage(riskPercentage),
          error |-> << >>,
          metrics |->
            [ largestDisputeBond |-> largestDisputeBond,
              forkThresholdPercent |-> RoundHundredths(forkThresholdPercent),
              activeDisputes |-> Len(activeDisputes),
              disputeDetails |-> Slice(activeDisputes, topDetails) ],
          rpcInfo |->
            [ endpoint |-> conn.endpoint,
              latency |-> conn.latency,
              fallbacksAttempted |-> conn.fallbacksAttempted ],
          calculation |->
            [ method |-> "GitHub Actions + Public RPC",
              forkThreshold |-> FORK_THRESHOLD_REP ] ]

\* the fork flag ignored: the score of an empty dispute list
getForkingResultScored(block, conn) == ScoreResult(<< >>, block, conn)

getForkingResult(block, conn) ==
    [ blockNumber |-> <<block>>,
      riskLevel |-> "critical",
      riskPercentage |-> Pct(100),
      error |-> << >>,
      metrics |->
        [ largestDisputeBond |-> Rep(FORK_THRESHOLD_REP),
          forkThresholdPercent |-> 100 * 100,
          activeDisputes |-> 0,
          disputeDetails |->
            << [ marketId |-> "FORKING",
                 title |-> "Universe is currently forking",
                 disputeBondSize |-> Rep(FORK_THRESHOLD_REP),
                 disputeRound |-> 99,
                 daysRemaining |-> 0 ] >> ],
      rpcInfo |->
        [ endpoint |-> conn.endpoint,
          latency |-> conn.latency,
          fallbacksAttempted |-> conn.fallbacksAttempted ],
      calculation |->
        [ method |-> "Fork Detected",
          forkThreshold |-> FORK_THRESHOLD_REP ] ]

\* the error result that passes for a scored one
getErrorResultAsLow(errorMessage) ==
    [ blockNumber |-> << >>,
      riskLevel |-> "low",
      riskPercentage |-> 0,
      error |-> <<errorMessage>>,
      metrics |->
        [ largestDisputeBond |-> 0,
          forkThresholdPercent |-> 0,
          activeDisputes |-> 0,
          disputeDetails |-> << >> ],
      rpcInfo |->
        [ endpoint |-> "null",
          latency |-> "null",
          fallbacksAttempted |-> 0 ],
      calculation |->
        [ method |-> "Error",
          forkThreshold |-> FORK_THRESHOLD_REP ] ]

getErrorResult(errorMessage) ==
    [ blockNumber |-> << >>,
      riskLevel |-> "unknown",
      riskPercentage |-> 0,
      error |-> <<errorMessage>>,
      metrics |->
        [ largestDisputeBond |-> 0,
          forkThresholdPercent |-> 0,
          activeDisputes |-> 0,
          disputeDetails |-> << >> ],
      rpcInfo |->
        [ endpoint |-> "null",
          latency |-> "null",
          fallbacksAttempted |-> 0 ],
      calculation |->
        [ method |-> "Error",
          forkThreshold |-> FORK_THRESHOLD_REP ] ]


(***************************************************************************)
(* The contract manifest, contracts/augur-abis.json.                       *)
(***************************************************************************)
Manifests ==
    {[state |-> f, entries |-> {}] : f \in {"missing", "unparseable"}}
    \cup {[state |-> "json", entries |-> e] : e \in SUBSET ManifestEntries}

\* the entries are read in this order; reading an absent one throws
BindOrder == << "universe", "augur", "repV2Token", "cash" >>

\* a loader that binds the entries the manifest has and skips the others
loadContractsPartial(m) ==
    IF m.state = "missing"
    THEN [threw |-> TRUE, message |-> "ENOENT: no such file or directory",
          contracts |-> {}]
    ELSE IF m.state = "unparseable"
    THEN [threw |-> TRUE, message |-> "Unexpected token in JSON",
          contracts |-> {}]
    ELSE [threw |-> FALSE, message |-> "",
          contracts |->
              {BindOrder[i] : i \in 1..Len(BindOrder)} \cap m.entries]

\* loadContracts: the handles it returns, or the message of what it throws
loadContracts(m) ==
    IF m.state = "missing"
    THEN [threw |-> TRUE, message |-> "ENOENT: no such file or directory",
          contracts |-> {}]
    ELSE IF m.state = "unparseable"
    THEN [threw |-> TRUE, message |-> "Unexpected token in JSON",
          contracts |-> {}]
    ELSE IF \E i \in 1..Len(BindOrder) : BindOrder[i] \notin m.entries
    THEN [threw |-> TRUE,
          message |-> "Cannot read properties of undefined (reading 'address')",
          contracts |-> {}]
    ELSE [threw |-> FALSE, message |-> "",
          contracts |-> {BindOrder[i] : i \in 1..Len(BindOrder)}]

(***************************************************************************)
(* The run.                                                                *)
(***************************************************************************)
\* the artifact an earlier run left
PriorArtifact == getErrorResult("previous run")

\* the data of the page before any fetch of the artifact
DefaultData == [source |-> "default"]

\* process.env.ETH_RPC_URL: unset, the placeholder of the README, or a node
EnvUrls ==
    {"", "https://mainnet.infura.io/v3/YOUR-PROJECT-ID",
     "https://your-custom-rpc-endpoint.com"}

Init ==
    /\ pc = "getWorkingProvider"
    /\ chain \in Chains
    /\ ETH_RPC_URL \in EnvUrls
    /\ ETH_RPC_URL # "" => chain \in ShapeChains
    /\ rpcIdx = 1
    /\ fallbacksAttempted = 0
    /\ probed = << >>
    /\ rpcCalls = {}
    /\ inFlight = {}
    /\ connection = << >>
    /\ manifest = << >>
    /\ contracts = {}
    /\ blockNumber = << >>
    /\ forkCheck = "none"
    /\ currentBlock = 0
    /\ start = 0
    /\ queried = << >>
    /\ allEvents = << >>
    /\ evIdx = 0
    /\ disputes = << >>
    /\ results = << >>
    /\ caught = << >>
    /\ saveAttempts = << >>
    /\ written = << >>
    /\ returnedDisputes = << >>
    /\ file = <<PriorArtifact>>
    /\ exitCode = -1
    /\ isDemo = FALSE
    /\ data = DefaultData
    /\ fetching = 0
    /\ parsing = 0
    /\ clicks = 0

\* an exception reaches the catch of main
Throw(message) ==
    /\ caught' = <<message>>
    /\ pc' = "catch"

\* the RpcConnection returned for rpc after `failures` failed probes, with a
\* count that includes the successful probe
ConnectedCountingSelf(rpc, failures) ==
    [ provider |-> rpc,
      endpoint |-> rpc,
      latency |-> "measured",
      fallbacksAttempted |-> failures + 1 ]

\* the RpcConnection returned for rpc after `failures` failed probes
Connected(rpc, failures) ==
    [ provider |-> rpc,
      endpoint |-> rpc,
      latency |-> "measured",
      fallbacksAttempted |-> failures ]

\* a provider of the first public endpoint, whatever was selected
providerDefault(conn) == PUBLIC_RPC_ENDPOINTS[1]

\* connection.provider, the client of every call after the probes
providerOf(conn) == conn.provider

\* a call goes out through the selected provider
RpcCall == rpcCalls' = rpcCalls \cup {providerOf(connection[1])}

\* getWorkingProvider, one turn of its loop: the probe of one endpoint
TryEndpoint ==
    /\ pc = "getWorkingProvider"
    /\ \E ok \in BOOLEAN :
        /\ probed' = Append(probed,
               [endpoint |-> PUBLIC_RPC_ENDPOINTS[rpcIdx], ok |-> ok])
        /\ IF ok
           THEN /\ connection' =
                      << Connected(PUBLIC_RPC_ENDPOINTS[rpcIdx],
                                   fallbacksAttempted) >>
                /\ pc' = "loadContracts"
                /\ UNCHANGED << rpcIdx, fallbacksAttempted, caught >>
           ELSE /\ fallbacksAttempted' = fallbacksAttempted + 1
                /\ UNCHANGED connection
                /\ IF rpcIdx < Len(PUBLIC_RPC_ENDPOINTS)
                   THEN /\ rpcIdx' = rpcIdx + 1
                        /\ UNCHANGED << pc, caught >>
                   ELSE /\ Throw("All RPC endpoints failed (attempted "
                                 \o ToString(fallbacksAttempted') \o ")")
                        /\ UNCHANGED rpcIdx
    /\ UNCHANGED pageVars
    /\ UNCHANGED << ETH_RPC_URL, rpcCalls, chain, inFlight, returnedDisputes,
                    manifest, contracts, blockNumber, forkCheck,
                    currentBlock, start, queried, allEvents, evIdx, disputes,
                    results, saveAttempts, written, file, exitCode >>

\* calculateForkRisk: await loadContracts(connection.provider)
LoadContracts ==
    /\ pc = "loadContracts"
    /\ \E m \in Manifests :
        LET r == loadContracts(m)
        IN  /\ manifest' = <<m>>
            /\ IF r.threw
               THEN /\ Throw(r.message)
                    /\ UNCHANGED contracts
               ELSE /\ contracts' = r.contracts
                    /\ pc' = "getBlockNumber"
                    /\ UNCHANGED caught
    /\ UNCHANGED pageVars
    /\ UNCHANGED << ETH_RPC_URL, rpcCalls, chain, inFlight, returnedDisputes,
                    rpcIdx, fallbacksAttempted, probed, connection,
                    blockNumber, forkCheck, currentBlock, start, queried,
                    allEvents, evIdx, disputes, results, saveAttempts,
                    written, file, exitCode >>

\* calculateForkRisk: await connection.provider.getBlockNumber()
GetBlockNumber ==
    /\ pc = "getBlockNumber"
    /\ \E ok \in BOOLEAN :
        IF ok
        THEN /\ blockNumber' = <<HeadBlock>>
             /\ pc' = "isForking"
             /\ UNCHANGED caught
        ELSE /\ Throw("getBlockNumber failed")
             /\ UNCHANGED blockNumber
    /\ RpcCall
    /\ UNCHANGED pageVars
    /\ UNCHANGED << ETH_RPC_URL, chain, inFlight, returnedDisputes,
                    rpcIdx, fallbacksAttempted, probed, connection,
                    manifest, contracts, forkCheck, currentBlock, start,
                    queried, allEvents, evIdx, disputes, results,
                    saveAttempts, written, file, exitCode >>

\* a fork check that goes on to the disputes whatever the answer
CheckForkingThenScan ==
    /\ pc = "isForking"
    /\ \E answer \in {"true", "false", "throws"} :
        /\ forkCheck' = answer
        /\ IF answer = "true"
           THEN /\ pc' = "getActiveDisputes"
                /\ UNCHANGED << results, caught >>
           ELSE IF answer = "false"
           THEN /\ pc' = "getActiveDisputes"
                /\ UNCHANGED << results, caught >>
           ELSE /\ Throw("isForking call failed")
                /\ UNCHANGED results
    /\ RpcCall
    /\ UNCHANGED pageVars
    /\ UNCHANGED << ETH_RPC_URL, chain, inFlight, returnedDisputes,
                    rpcIdx, fallbacksAttempted, probed, connection,
                    manifest, contracts, blockNumber, currentBlock, start,
                    queried, allEvents, evIdx, disputes, saveAttempts,
                    written, file, exitCode >>

\* calculateForkRisk: await contracts.universe.isForking()
CheckForking ==
    /\ pc = "isForking"
    /\ \E answer \in {"true", "false", "throws"} :
        /\ forkCheck' = answer
        /\ IF answer = "true"
           THEN /\ results' =
                      <<getForkingResult(blockNumber[1], connection[1])>>
                /\ pc' = "saveResults"
                /\ UNCHANGED caught
           ELSE IF answer = "false"
           THEN /\ pc' = "getActiveDisputes"
                /\ UNCHANGED << results, caught >>
           ELSE /\ Throw("isForking call failed")
                /\ UNCHANGED results
    /\ RpcCall
    /\ UNCHANGED pageVars
    /\ UNCHANGED << ETH_RPC_URL, chain, inFlight, returnedDisputes,
                    rpcIdx, fallbacksAttempted, probed, connection,
                    manifest, contracts, blockNumber, currentBlock, start,
                    queried, allEvents, evIdx, disputes, saveAttempts,
                    written, file, exitCode >>

\* getActiveDisputes returns ds: calculateForkRisk scores it and returns
ReturnToMain(ds) ==
    /\ returnedDisputes' = ds
    /\ results' = <<ScoreResult(ds, blockNumber[1], connection[1])>>
    /\ pc' = "saveResults"

\* a chunk end that reaches the first block of the next chunk
ChunkEndOverlapping(from, head) == Min(from + chunkSize, head)

\* the last block of the chunk that starts at from
ChunkEnd(from, head) == Min(from + chunkSize - 1, head)

\* the queries issued from the chunk starting at from, two chunks at a time
IssuedInPairs(from, head) ==
    {[start |-> f, end |-> ChunkEnd(f, head)] :
        f \in {g \in {from, from + chunkSize} : g < head}}

\* a turn of the chunk loop up to its await: the one query it issues
IssuedBeforeAwait(from, head) ==
    {[start |-> from, end |-> ChunkEnd(from, head)]}

\* a getActiveDisputes without its outer handler
StartDisputesUncaught ==
    /\ pc = "getActiveDisputes"
    /\ \E ok \in BOOLEAN :
        IF ok
        THEN /\ currentBlock' = HeadBlock
             /\ start' = HeadBlock - searchPeriod
             /\ inFlight' = IssuedBeforeAwait(HeadBlock - searchPeriod,
                                              HeadBlock)
             /\ pc' = "queryFilter"
             /\ UNCHANGED << results, returnedDisputes, caught >>
        ELSE /\ Throw("getBlockNumber failed")
             /\ UNCHANGED << currentBlock, start, inFlight, results,
                             returnedDisputes >>
    /\ RpcCall
    /\ UNCHANGED pageVars
    /\ UNCHANGED << ETH_RPC_URL, chain,
                    rpcIdx, fallbacksAttempted, probed, connection,
                    manifest, contracts, blockNumber, forkCheck, queried,
                    allEvents, evIdx, disputes, saveAttempts,
                    written, file, exitCode >>

\* getActiveDisputes: await provider.getBlockNumber(); a failure is caught
\* by the function's own handler, which returns the empty list. On success
\* the function runs on to the await of the first chunk query
StartDisputes ==
    /\ pc = "getActiveDisputes"
    /\ \E ok \in BOOLEAN :
        IF ok
        THEN /\ currentBlock' = HeadBlock
             /\ start' = HeadBlock - searchPeriod
             /\ inFlight' = IssuedBeforeAwait(HeadBlock - searchPeriod,
                                              HeadBlock)
             /\ pc' = "queryFilter"
             /\ UNCHANGED << results, returnedDisputes >>
        ELSE /\ ReturnToMain(<< >>)
             /\ UNCHANGED << currentBlock, start, inFlight >>
    /\ RpcCall
    /\ UNCHANGED pageVars
    /\ UNCHANGED << ETH_RPC_URL, chain,
                    rpcIdx, fallbacksAttempted, probed, connection,
                    manifest, contracts, blockNumber, forkCheck, queried,
                    allEvents, evIdx, disputes, caught, saveAttempts,
                    written, file, exitCode >>

\* the chunk queries the bounds let fail: the first ones and the last one
MayFail(from, to) ==
    \/ (from - (currentBlock - searchPeriod)) \div chunkSize < FlakyChunks
    \/ to = currentBlock

\* the outcomes of the query of [from, to]: either one where the bounds let
\* it fail; after that an outage, where every query so far has failed, may
\* end at the next query or else lasts up to the last one
ChunkOutcomes(from, to) ==
    IF MayFail(from, to) THEN BOOLEAN
    ELSE IF \E i \in 1..Len(queried) : queried[i].ok THEN {TRUE}
    ELSE IF Len(queried) = FlakyChunks THEN BOOLEAN
    ELSE {FALSE}

\* a chunk loop whose failed query reaches the catch of main
QueryChunkUncaught ==
    /\ pc = "queryFilter"
    /\ LET end == ChunkEnd(start, currentBlock)
       IN  \E ok \in ChunkOutcomes(start, end) :
            LET chunkEvents == queryFilter(chain, start, end)
                collected ==
                    IF ok
                    THEN allEvents \o SelectSeq(chunkEvents,
                             LAMBDA e : e.shape # "undecoded")
                    ELSE allEvents
            IN  IF ~ok
                THEN /\ queried' = Append(queried,
                            [start |-> start, end |-> end, ok |-> ok])
                     /\ Throw("queryFilter failed")
                     /\ inFlight' = {}
                     /\ UNCHANGED << allEvents, start, evIdx, results,
                                     returnedDisputes >>
                ELSE
                /\ queried' = Append(queried,
                       [start |-> start, end |-> end, ok |-> ok])
                /\ UNCHANGED caught
                /\ allEvents' = collected
                /\ start' = start + chunkSize
                /\ inFlight' =
                       {q \in inFlight : q.start # start}
                       \cup (IF start + chunkSize < currentBlock
                             THEN IssuedBeforeAwait(start + chunkSize,
                                                    currentBlock)
                             ELSE {})
                /\ IF start + chunkSize < currentBlock
                   THEN UNCHANGED << pc, evIdx, results, returnedDisputes >>
                   ELSE IF Len(collected) > 0
                   THEN /\ pc' = "processEvent"
                        /\ evIdx' = 1
                        /\ UNCHANGED << results, returnedDisputes >>
                   ELSE /\ ReturnToMain(ReturnDisputes(disputes))
                        /\ UNCHANGED evIdx
    /\ RpcCall
    /\ UNCHANGED pageVars
    /\ UNCHANGED << ETH_RPC_URL, chain,
                    rpcIdx, fallbacksAttempted, probed, connection,
                    manifest, contracts, blockNumber, forkCheck,
                    currentBlock, disputes, saveAttempts, written,
                    file, exitCode >>

\* getActiveDisputes, one turn of the chunk loop: the awaited queryFilter
\* settles, and the loop runs on to the await of the next query, if any
QueryChunk ==
    /\ pc = "queryFilter"
    /\ LET end == ChunkEnd(start, currentBlock)
       IN  \E ok \in ChunkOutcomes(start, end) :
            LET chunkEvents == queryFilter(chain, start, end)
                collected ==
                    IF ok
                    THEN allEvents \o SelectSeq(chunkEvents,
                             LAMBDA e : e.shape # "undecoded")
                    ELSE allEvents
            IN  /\ queried' = Append(queried,
                       [start |-> start, end |-> end, ok |-> ok])
                /\ allEvents' = collected
                /\ start' = start + chunkSize
                /\ inFlight' =
                       {q \in inFlight : q.start # start}
                       \cup (IF start + chunkSize < currentBlock
                             THEN IssuedBeforeAwait(start + chunkSize,
                                                    currentBlock)
                             ELSE {})
                /\ IF start + chunkSize < currentBlock
                   THEN UNCHANGED << pc, evIdx, results, returnedDisputes >>
                   ELSE IF Len(collected) > 0
                   THEN /\ pc' = "processEvent"
                        /\ evIdx' = 1
                        /\ UNCHANGED << results, returnedDisputes >>
                   ELSE /\ ReturnToMain(ReturnDisputes(disputes))
                        /\ UNCHANGED evIdx
    /\ RpcCall
    /\ UNCHANGED pageVars
    /\ UNCHANGED << ETH_RPC_URL, chain,
                    rpcIdx, fallbacksAttempted, probed, connection,
                    manifest, contracts, blockNumber, forkCheck,
                    currentBlock, disputes, caught, saveAttempts, written,
                    file, exitCode >>

\* the record pushed for event e
DisputeRecord(e, round) ==
    [ marketId |-> e.market,
      title |-> "Market " \o e.market \o "...",
      disputeBondSize |-> e.bondWei,
      disputeRound |-> round,
      daysRemaining |-> 7 ]

\* an event loop that pushes a record without asking isFinalized
ProcessedEventKeepingFinalized(ds, e) ==
    IF e.shape # "ok" THEN ds
    ELSE IF e.lookup = "throws" THEN Append(ds, DisputeRecord(e, 1))
    ELSE Append(ds, DisputeRecord(e, EstimateRound(e.bondWei)))

\* an event loop that gives up the event whose market lookup throws
ProcessedEventDroppingFailedLookups(ds, e) ==
    IF e.shape # "ok" THEN ds
    ELSE IF e.lookup = "active"
    THEN Append(ds, DisputeRecord(e, EstimateRound(e.bondWei)))
    ELSE ds

\* the body of the event loop: the list after event e
ProcessedEvent(ds, e) ==
    IF e.shape # "ok" THEN ds
    ELSE IF e.lookup = "finalized" THEN ds
    ELSE IF e.lookup = "active"
    THEN Append(ds, DisputeRecord(e, EstimateRound(e.bondWei)))
    ELSE Append(ds, DisputeRecord(e, 1))

\* getActiveDisputes, one turn of the event loop
ProcessEvent ==
    /\ pc = "processEvent"
    /\ LET pushed == ProcessedEvent(disputes, allEvents[evIdx])
       IN  /\ disputes' = pushed
           /\ IF evIdx < Len(allEvents)
              THEN /\ evIdx' = evIdx + 1
                   /\ UNCHANGED << pc, results, returnedDisputes >>
              ELSE /\ ReturnToMain(ReturnDisputes(pushed))
                   /\ UNCHANGED evIdx
    /\ IF allEvents[evIdx].shape = "ok" THEN RpcCall ELSE UNCHANGED rpcCalls
    /\ UNCHANGED pageVars
    /\ UNCHANGED << ETH_RPC_URL, chain, inFlight,
                    rpcIdx, fallbacksAttempted, probed, connection,
                    manifest, contracts, blockNumber, forkCheck,
                    currentBlock, start, queried, allEvents, caught,
                    saveAttempts, written, file, exitCode >>

\* a write that appends the artifact to what the file holds
saveResultsAppending(artifact, outcome, truncated) ==
    /\ saveAttempts' = Append(saveAttempts, artifact)
    /\ IF outcome = "ok"
       THEN /\ file' = Append(file, artifact)
            /\ written' = Append(written, artifact)
       ELSE /\ file' = IF outcome = "writeFile fails" /\ truncated
                       THEN << >> ELSE file
            /\ UNCHANGED written

\* saveResults(artifact): mkdir, then writeFile; a failed writeFile may have
\* truncated the file already
saveResults(artifact, outcome, truncated) ==
    /\ saveAttempts' = Append(saveAttempts, artifact)
    /\ IF outcome = "ok"
       THEN /\ file' = <<artifact>>
            /\ written' = Append(written, artifact)
       ELSE /\ file' = IF outcome = "writeFile fails" /\ truncated
                       THEN << >> ELSE file
            /\ UNCHANGED written

SaveOutcomes == {"ok", "mkdir fails", "writeFile fails"}

\* main: await saveResults(results), then process.exit(0)
SaveResults ==
    /\ pc = "saveResults"
    /\ \E outcome \in SaveOutcomes, truncated \in BOOLEAN :
        /\ saveResults(results[1], outcome, truncated)
        /\ IF outcome = "ok"
           THEN /\ exitCode' = 0
                /\ pc' = "exit"
                /\ UNCHANGED caught
           ELSE /\ Throw(outcome)
                /\ UNCHANGED exitCode
    /\ UNCHANGED pageVars
    /\ UNCHANGED << ETH_RPC_URL, rpcCalls, chain, inFlight, returnedDisputes,
                    rpcIdx, fallbacksAttempted, probed, connection,
                    manifest, contracts, blockNumber, forkCheck,
                    currentBlock, start, queried, allEvents, evIdx,
                    disputes, results >>

\* the catch that reports success once the error result is saved
SaveErrorResultExitZero ==
    /\ pc = "catch"
    /\ \E outcome \in SaveOutcomes, truncated \in BOOLEAN :
        /\ saveResults(getErrorResult(caught[1]), outcome, truncated)
        /\ exitCode' = IF outcome = "ok" THEN 0 ELSE 1
    /\ pc' = "exit"
    /\ UNCHANGED pageVars
    /\ UNCHANGED << ETH_RPC_URL, rpcCalls, chain, inFlight, returnedDisputes,
                    rpcIdx, fallbacksAttempted, probed, connection,
                    manifest, contracts, blockNumber, forkCheck,
                    currentBlock, start, queried, allEvents, evIdx,
                    disputes, results, caught >>

\* the catch that exits at once
ExitWithoutSaving ==
    /\ pc = "catch"
    /\ exitCode' = 1
    /\ pc' = "exit"
    /\ UNCHANGED pageVars
    /\ UNCHANGED << ETH_RPC_URL, rpcCalls, chain, inFlight, returnedDisputes,
                    rpcIdx, fallbacksAttempted, probed, connection,
                    manifest, contracts, blockNumber, forkCheck,
                    currentBlock, start, queried, allEvents, evIdx,
                    disputes, results, caught, saveAttempts, written, file >>

\* main, the catch: save the error result, then process.exit(1)
SaveErrorResult ==
    /\ pc = "catch"
    /\ \E outcome \in SaveOutcomes, truncated \in BOOLEAN :
        saveResults(getErrorResult(caught[1]), outcome, truncated)
    /\ exitCode' = 1
    /\ pc' = "exit"
    /\ UNCHANGED pageVars
    /\ UNCHANGED << ETH_RPC_URL, rpcCalls, chain, inFlight, returnedDisputes,
                    rpcIdx, fallbacksAttempted, probed, connection,
                    manifest, contracts, blockNumber, forkCheck,
                    currentBlock, start, queried, allEvents, evIdx,
                    disputes, results, caught >>

Next ==
    \/ TryEndpoint
    \/ LoadContracts
    \/ GetBlockNumber
    \/ CheckForking
    \/ StartDisputes
    \/ QueryChunk
    \/ ProcessEvent
    \/ SaveResults
    \/ SaveErrorResult

Spec == Init /\ [][Next]_vars

(***************************************************************************)
(* The page: DemoProvider over the data of ForkRiskContext. Every call of  *)
(* a function of the context is one step, every await of resetToLive is    *)
(* one more. The calculation script does not run meanwhile.                *)
(***************************************************************************)
\* the calls of the functions of the context in one behaviour
MaxClicks == 5

\* enum DisputeBondScenario
DisputeBondScenario ==
    {"no_disputes", "low_risk", "moderate_risk", "high_risk", "critical_risk"}

\* generateDemoForkRiskData(scenario): the data, known by their scenario
generateDemoForkRiskData(scenario) ==
    [source |-> "demo", scenario |-> scenario]

\* the artifact fetched from data/fork-risk.json
LiveData == [source |-> "live"]

\* generateRisk(percentage): the percentage is not used
generateRisk ==
    /\ clicks < MaxClicks
    /\ clicks' = clicks + 1
    /\ data' = generateDemoForkRiskData("low_risk")
    /\ isDemo' = TRUE
    /\ UNCHANGED << fetching, parsing >>
    /\ UNCHANGED runVars

\* generateScenario(scenario)
generateScenario ==
    /\ clicks < MaxClicks
    /\ clicks' = clicks + 1
    /\ \E scenario \in DisputeBondScenario :
        data' = generateDemoForkRiskData(scenario)
    /\ isDemo' = TRUE
    /\ UNCHANGED << fetching, parsing >>
    /\ UNCHANGED runVars

\* setDemoData(data), called with data a panel generated
setDemoData ==
    /\ clicks < MaxClicks
    /\ clicks' = clicks + 1
    /\ \E d \in {generateDemoForkRiskData(sc) : sc \in DisputeBondScenario} :
        data' = d
    /\ isDemo' = TRUE
    /\ UNCHANGED << fetching, parsing >>
    /\ UNCHANGED runVars

\* resetToLive, up to its first await: the fetch is issued
resetToLive ==
    /\ clicks < MaxClicks
    /\ clicks' = clicks + 1
    /\ fetching' = fetching + 1
    /\ UNCHANGED << isDemo, data, parsing >>
    /\ UNCHANGED runVars

\* resetToLive: the fetch settles; a response that is not ok and a rejected
\* fetch both end in the catch, which calls setIsDemo(false) and no setData
FetchSettles ==
    /\ fetching > 0
    /\ fetching' = fetching - 1
    /\ \E outcome \in {"ok", "not ok", "rejected"} :
        IF outcome = "ok"
        THEN /\ parsing' = parsing + 1
             /\ UNCHANGED << isDemo, data >>
        ELSE /\ isDemo' = FALSE
             /\ UNCHANGED << data, parsing >>
    /\ UNCHANGED clicks
    /\ UNCHANGED runVars

\* resetToLive: response.json() settles: setData(liveData) and
\* setIsDemo(false), or the catch
JsonSettles ==
    /\ parsing > 0
    /\ parsing' = parsing - 1
    /\ \E parsed \in BOOLEAN :
        IF parsed
        THEN /\ data' = LiveData
             /\ isDemo' = FALSE
        ELSE /\ isDemo' = FALSE
             /\ UNCHANGED data
    /\ UNCHANGED << fetching, clicks >>
    /\ UNCHANGED runVars

\* the page is loaded and the script is not running
InitDemo ==
    /\ Init
    /\ chain = << >>
    /\ ETH_RPC_URL = ""

NextDemo ==
    \/ generateRisk
    \/ generateScenario
    \/ setDemoData
    \/ resetToLive
    \/ FetchSettles
    \/ JsonSettles

SpecDemo == InitDemo /\ [][NextDemo]_vars

(***************************************************************************)
(* What the properties speak of.                                           *)
(***************************************************************************)
Range(s) == {s[i] : i \in 1..Len(s)}

\* calculateForkRisk has returned the scored result of a non-forking run
Scored == forkCheck = "false" /\ results # << >>

\* the run wrote the result of calculateForkRisk and exited with code 0
Succeeded == exitCode = 0 /\ results # << >> /\ file = results

\* the bonds of the records that qualified, before the sort and the caps
QualifiedBonds == {disputes[i].disputeBondSize : i \in 1..Len(disputes)}

\* the largest of them, 0 when there is none
LargestQualifiedBond ==
    IF QualifiedBonds = {} THEN 0
    ELSE CHOOSE b \in QualifiedBonds : \A c \in QualifiedBonds : c <= b

\* the tiers as documented: each closed on its lower bound 10, 25, 75
DocumentedLevel(p) ==
    IF p >= Pct(75) THEN "critical"
    ELSE IF p >= Pct(25) THEN "high"
    ELSE IF p >= Pct(10) THEN "moderate"
    ELSE "low"

(***************************************************************************)
(* C1: in a non-forking run the risk level of the percentage p is critical *)
(* for p >= 75, else high for p >= 25, else moderate for p >= 10, else     *)
(* low.  The code decides otherwise: this is violated.                     *)
(***************************************************************************)
C1_LevelFollowsDocumentedTiers ==
    Scored =>
        results[1].riskLevel =
            DocumentedLevel(ThresholdPercent(LargestQualifiedBond))

AllProbesFailed ==
    /\ Len(probed) = Len(PUBLIC_RPC_ENDPOINTS)
    /\ \A i \in 1..Len(probed) : ~probed[i].ok

(***************************************************************************)
(* C3: when every probe fails, the run writes an artifact with risk level  *)
(* unknown, a non-empty error and rpcInfo.fallbacksAttempted equal to the  *)
(* number of endpoints attempted, and exits non-zero.  The artifact says 0 *)
(* attempts: this is violated.                                             *)
(***************************************************************************)
C3_AllProbesFailArtifact ==
    (AllProbesFailed /\ pc = "exit") =>
        /\ exitCode # 0
        /\ Len(saveAttempts) = 1
        /\ saveAttempts[1].riskLevel = "unknown"
        /\ saveAttempts[1].error # << >>
        /\ saveAttempts[1].error[1] # ""
        /\ saveAttempts[1].rpcInfo.fallbacksAttempted = Len(probed)

(***************************************************************************)
(* C4: the risk percentage of a non-forking result is the largest bond as  *)
(* a percentage of the threshold, clamped to [0, 100]: 0 for no bond and   *)
(* exactly 100 for every bond at or above the threshold.                   *)
(***************************************************************************)
C4_PercentageIsClampedRatio ==
    Scored =>
        LET b == LargestQualifiedBond
            p == results[1].riskPercentage
        IN  /\ b >= 0
            /\ b * 100 <= 100 * PctDen => p = b * 100
            /\ b * 100 >= 100 * PctDen => p = 100 * PctDen
            /\ b = 0 => p = 0
            /\ b >= Rep(FORK_THRESHOLD_REP) => p = Pct(100)

\* a bond above the threshold, where the clamp decides
C4_Witness ==
    /\ Scored
    /\ LargestQualifiedBond > Rep(FORK_THRESHOLD_REP)
    /\ results[1].riskPercentage = Pct(100)

(***************************************************************************)
(* C5: the risk percentage of every artifact handed to the writer, be it   *)
(* a scored, a forking or an error result, lies in [0, 100].               *)
(***************************************************************************)
C5_PercentageInRange ==
    \A i \in 1..Len(saveAttempts) :
        /\ 0 <= saveAttempts[i].riskPercentage
        /\ saveAttempts[i].riskPercentage <= Pct(100)

\* a written scored artifact whose ratio was above 100 percent
C5_Witness ==
    /\ Succeeded
    /\ forkCheck = "false"
    /\ ThresholdPercent(file[1].metrics.largestDisputeBond) > Pct(100)

(***************************************************************************)
(* C6: an artifact handed to the writer carries an error if and only if    *)
(* its risk level is unknown.                                              *)
(***************************************************************************)
C6_ErrorIffUnknown ==
    \A i \in 1..Len(saveAttempts) :
        saveAttempts[i].error # << >> <=> saveAttempts[i].riskLevel = "unknown"

\* a run that handed a scored result and then an error result to the writer
C6_Witness ==
    /\ exitCode = 1
    /\ Len(saveAttempts) = 2
    /\ saveAttempts[1].error = << >>
    /\ saveAttempts[1].riskLevel \in {"low", "moderate", "high"}
    /\ saveAttempts[2].error # << >>
    /\ written = <<saveAttempts[2]>>

(***************************************************************************)
(* C7: the exit code is 0 only when nothing was thrown and the result of   *)
(* the calculation was written; it is 1 whenever the calculation or the    *)
(* write of its result threw, also when the error artifact was written.    *)
(***************************************************************************)
C7_ExitCode ==
    /\ exitCode \in {-1, 0, 1}
    /\ exitCode = -1 <=> pc # "exit"
    /\ exitCode = 0 =>
           /\ caught = << >>
           /\ results # << >>
           /\ written = results
           /\ file = results
    /\ (pc = "exit" /\ caught # << >>) => exitCode = 1

\* the write of the result failed, the write of the error artifact did not
C7_Witness ==
    /\ exitCode = 1
    /\ results # << >>
    /\ Len(written) = 1
    /\ written[1].riskLevel = "unknown"
    /\ file = written

(***************************************************************************)
(* C8: a run that exits with code 1 has, as the last thing before the      *)
(* exit, attempted to write the error artifact of the error it caught;     *)
(* whether that write succeeds or fails, the exit with code 1 follows.     *)
(***************************************************************************)
C8_ErrorWriteAttemptedBeforeExit ==
    [][ /\ pc = "catch" =>
            /\ pc' = "exit"
            /\ exitCode' = 1
            /\ Len(saveAttempts') = Len(saveAttempts) + 1
            /\ saveAttempts'[Len(saveAttempts')].riskLevel = "unknown"
            /\ saveAttempts'[Len(saveAttempts')].error = caught
        /\ exitCode' = 1 => (pc = "catch" \/ exitCode = 1) ]_vars

\* the write of the result failed, and then the write of the error artifact
C8_Witness ==
    /\ exitCode = 1
    /\ written = << >>
    /\ saveAttempts[Len(saveAttempts)].riskLevel = "unknown"
    /\ results # << >>
    /\ Len(saveAttempts) = 2

(***************************************************************************)
(* C9: the dispute details of a scored result are in non-increasing order  *)
(* of bond, at most five, and the largest of the qualifying records.       *)
(***************************************************************************)
C9_DetailsAreTopFive ==
    Scored =>
        LET dd == results[1].metrics.disputeDetails
        IN  /\ Len(dd) <= 5
            /\ Len(dd) = Min(5, Len(disputes))
            /\ \A i \in 1..Len(dd) - 1 :
                   dd[i].disputeBondSize >= dd[i + 1].disputeBondSize
            /\ \A i \in 1..Len(dd) :
                   /\ dd[i] \in Range(disputes)
                   /\ Cardinality({j \in 1..Len(disputes) :
                          disputes[j].disputeBondSize
                              > dd[i].disputeBondSize}) < i

\* more than ten qualifying disputes, pushed out of order
C9_Witness ==
    /\ Scored
    /\ Len(disputes) > 10
    /\ Len(results[1].metrics.disputeDetails) = 5
    /\ \E i \in 1..Len(disputes) - 1 :
           disputes[i].disputeBondSize < disputes[i + 1].disputeBondSize
    /\ \E i \in 1..Len(disputes) - 1 :
           disputes[i].disputeBondSize > disputes[i + 1].disputeBondSize

\* the chunk loop of getActiveDisputes has ended
ChunksDone == queried # << >> /\ pc # "queryFilter"

\* the number of chunks of the window
NumChunks == (searchPeriod + chunkSize - 1) \div chunkSize

\* block b lies in a chunk whose query succeeded
InSucceededChunk(b) ==
    \E k \in 1..Len(queried) :
        queried[k].ok /\ queried[k].start <= b /\ b <= queried[k].end

FailedProbes == {i \in 1..Len(probed) : ~probed[i].ok}

\* C11: the probes follow the order of the list and stop at the first one
\* that answers: the i-th probe is of the i-th candidate, only the last
\* probe can have answered, the returned endpoint is the one of that probe,
\* and fallbacksAttempted is the number of candidates that failed before it
C11_FirstAnsweringEndpoint ==
    /\ Len(probed) <= Len(PUBLIC_RPC_ENDPOINTS)
    /\ \A i \in 1..Len(probed) :
        /\ probed[i].endpoint = PUBLIC_RPC_ENDPOINTS[i]
        /\ probed[i].ok => i = Len(probed)
    /\ connection # << >> =>
        /\ probed # << >>
        /\ probed[Len(probed)].ok
        /\ connection[1].endpoint = probed[Len(probed)].endpoint
        /\ connection[1].fallbacksAttempted = Len(probed) - 1
        /\ connection[1].fallbacksAttempted = Cardinality(FailedProbes)
    /\ connection = << >> => FailedProbes = 1..Len(probed)

\* the third candidate answered after two failures and the run went on
C11_Witness ==
    /\ connection # << >>
    /\ connection[1].endpoint = PUBLIC_RPC_ENDPOINTS[3]
    /\ Len(probed) = 3
    /\ pc = "exit"

\* an override is configured and is not the unconfigured placeholder
OverrideConfigured ==
    /\ ETH_RPC_URL # ""
    /\ ETH_RPC_URL # "https://mainnet.infura.io/v3/YOUR-PROJECT-ID"

\* C12: a configured override that is not the placeholder is the first
\* endpoint probed; an unset or placeholder override is never probed and the
\* probes start at the first public endpoint
C12_OverrideProbedFirst ==
    probed # << >> =>
        IF OverrideConfigured
        THEN probed[1].endpoint = ETH_RPC_URL
        ELSE /\ probed[1].endpoint = PUBLIC_RPC_ENDPOINTS[1]
             /\ \A i \in 1..Len(probed) : probed[i].endpoint # ETH_RPC_URL

\* C13 as stated: a run that has exited completed exactly one write, and the
\* file holds exactly what that write put there
C13_ExactlyOneWrite ==
    pc = "exit" => Len(written) = 1 /\ file = written

\* C13: a run completes at most one write of the output file, and a completed
\* write leaves the artifact as the whole content of the file. A run that
\* exits 0 completed exactly one; a run that exits 1 completed one, or none
\* when every write it attempted threw, and then the file is as it was
\* before the run or truncated
C13_AtMostOneWrite ==
    /\ Len(written) <= 1
    /\ Len(saveAttempts) <= 2
    /\ Len(written) = 1 =>
        /\ file = written
        /\ written[1] = saveAttempts[Len(saveAttempts)]
    /\ pc = "exit" =>
        /\ saveAttempts # << >>
        /\ exitCode = 0 => Len(written) = 1
        /\ Len(written) = 0 =>
            /\ exitCode = 1
            /\ file \in {<<PriorArtifact>>, << >>}

\* the write of the result threw after truncating the file, and the write of
\* the error result then completed and is all the file holds
C13_Witness ==
    /\ pc = "exit"
    /\ Len(saveAttempts) = 2
    /\ saveAttempts[1] = results[1]
    /\ written = <<saveAttempts[2]>>
    /\ file = written

\* what C14 compares of an artifact
Digest(a) ==
    [ riskPercentage |-> a.riskPercentage,
      riskLevel |-> a.riskLevel,
      metrics |-> a.metrics ]

\* the decoded logs the chunk queries that succeeded answered with
Heard ==
    SelectSeq(chain, LAMBDA e :
        /\ e.shape # "undecoded"
        /\ \E i \in 1..Len(queried) :
            /\ queried[i].ok
            /\ queried[i].start <= e.block
            /\ e.block <= queried[i].end)

\* those of them that make a record, given what the market lookup answered
Qualifying ==
    SelectSeq(Heard, LAMBDA e : e.shape = "ok" /\ e.lookup # "finalized")

\* the place of the i-th of q by bond size, earlier ones first among equals
Rank(q, i) ==
    1 + Cardinality({j \in 1..Len(q) :
            \/ q[j].bondWei > q[i].bondWei
            \/ q[j].bondWei = q[i].bondWei /\ j < i})

\* the records the responses determine, largest bond first
ExpectedDisputes ==
    LET q == Qualifying
        place == [i \in 1..Len(q) |-> Rank(q, i)]
    IN  [k \in 1..Min(Len(q), topDisputes) |->
            LET e == q[CHOOSE i \in 1..Len(q) : place[i] = k]
            IN  [ marketId |-> e.market,
                  title |-> "Market " \o e.market \o "...",
                  disputeBondSize |-> e.bondWei,
                  disputeRound |->
                      IF e.lookup = "active" THEN EstimateRound(e.bondWei)
                      ELSE 1,
                  daysRemaining |-> 7 ]]

\* the compared fields as the responses of the run determine them
ExpectedDigest ==
    IF \/ \A i \in 1..Len(probed) : ~probed[i].ok
       \/ blockNumber = << >>
       \/ forkCheck \in {"none", "throws"}
    THEN [ riskPercentage |-> 0,
           riskLevel |-> "unknown",
           metrics |-> [ largestDisputeBond |-> 0,
                         forkThresholdPercent |-> 0,
                         activeDisputes |-> 0,
                         disputeDetails |-> << >> ] ]
    ELSE IF forkCheck = "true"
    THEN Digest(getForkingResult(0, [endpoint |-> "", latency |-> "",
                                     fallbacksAttempted |-> 0]))
    ELSE LET expected == ExpectedDisputes
             largest == IF expected = << >> THEN 0
                        ELSE expected[1].disputeBondSize
             p == ThresholdPercent(largest)
         IN  [ riskPercentage |-> IF p > Pct(100) THEN Pct(100) ELSE p,
               riskLevel |-> determineRiskLevel(p),
               metrics |->
                 [ largestDisputeBond |-> largest,
                   forkThresholdPercent |-> RoundHundredths(p),
                   activeDisputes |-> Len(expected),
                   disputeDetails |->
                       SubSeq(expected, 1,
                              Min(Len(expected), topDetails)) ] ]

C16_ThresholdIs275000 ==
    /\ \A i \in 1..Len(saveAttempts) :
        saveAttempts[i].calculation.forkThreshold = 275000
    /\ Scored /\ results[1].metrics.largestDisputeBond < Rep(275000) =>
        results[1].riskPercentage < Pct(100)

\* a persisted forkThresholdPercent, in hundredths, as a percentage
PersistedPercent(h) == h * (PctDen \div 100)

\* C17: in a non-forking result the level is the tier mapping applied to the
\* persisted forkThresholdPercent, be it the documented mapping or the one
\* of determineRiskLevel, so that equal persisted values carry equal levels
C17_LevelFollowsPersistedPercent ==
    Scored =>
        LET persisted ==
                PersistedPercent(results[1].metrics.forkThresholdPercent)
        IN  \/ results[1].riskLevel = DocumentedLevel(persisted)
            \/ results[1].riskLevel = determineRiskLevel(persisted)

\* the manifest read is missing, unparseable, or lacks a required entry
BrokenManifest ==
    /\ manifest # << >>
    /\ \/ manifest[1].state \in {"missing", "unparseable"}
       \/ ~({"universe", "augur", "repV2Token", "cash"}
                \subseteq manifest[1].entries)

C19_OneProbePerEndpoint ==
    /\ \A i, j \in 1..Len(probed) :
        probed[i].endpoint = probed[j].endpoint => i = j
    /\ rpcCalls # {} =>
        /\ connection # << >>
        /\ rpcCalls = {connection[1].endpoint}
        /\ rpcCalls = {probed[Len(probed)].endpoint}
        /\ \A i \in 1..Len(probed) :
            ~probed[i].ok => probed[i].endpoint \notin rpcCalls

\* the second endpoint was selected after the first failed, and the block
\* height, the fork check and the log queries all went to it
C19_Witness ==
    /\ Len(probed) = 2
    /\ rpcCalls = {PUBLIC_RPC_ENDPOINTS[2]}
    /\ queried # << >>
    /\ pc = "exit"

\* C20: over the window of 7 x 7200 = 50,400 blocks in chunks of 1,000, the
\* ranges queried are pairwise disjoint (each query made lies wholly after
\* all the earlier ones), each spans at most 1,000 blocks with
\* start <= end <= currentBlock, they follow one another without a gap from
\* currentBlock - 50,400 on, and once the loop is over the last one ends at
\* currentBlock: their union is every block of the window
C20_ChunksPartitionWindow ==
    /\ searchPeriod = 50400
    /\ chunkSize = 1000
    /\ \A i \in 1..Len(queried) :
        /\ queried[i].start <= queried[i].end
        /\ queried[i].end <= currentBlock
        /\ queried[i].end - queried[i].start + 1 <= 1000
        /\ i < Len(queried) => queried[i].end < queried[Len(queried)].start
    /\ queried # << >> => queried[1].start = currentBlock - 50400
    /\ \A i \in 1..Len(queried) - 1 :
        queried[i + 1].start = queried[i].end + 1
    /\ ChunksDone => queried[Len(queried)].end = currentBlock

\* the loop is over after 51 queries, the last of them shorter than a chunk
C20_Witness ==
    /\ ChunksDone
    /\ Len(queried) = 51
    /\ queried[51].start = currentBlock - 400
    /\ queried[51].end = currentBlock
    /\ pc = "exit"

\* C21: the chunk queries are issued one at a time in ascending block order:
\* at most one query is in flight, one is in flight exactly while the loop
\* awaits it, it lies wholly above every query settled before, and the
\* queries settled started at strictly ascending blocks
C21_OneQueryInFlight ==
    /\ Cardinality(inFlight) <= 1
    /\ pc = "queryFilter" =>
        inFlight = {[start |-> start, end |-> ChunkEnd(start, currentBlock)]}
    /\ pc # "queryFilter" => inFlight = {}
    /\ \A q \in inFlight :
        \A i \in 1..Len(queried) : queried[i].end < q.start
    /\ \A i \in 1..Len(queried) - 1 :
        queried[i].start < queried[i + 1].start

\* the third query is in flight after the second one failed
C21_Witness ==
    /\ pc = "queryFilter"
    /\ Len(queried) = 2
    /\ ~queried[2].ok
    /\ inFlight = {[start |-> queried[2].end + 1,
                    end |-> queried[2].end + chunkSize]}

\* the collected events that were not skipped for their shape
Decoded == SelectSeq(allEvents, LAMBDA e : e.shape = "ok")

\* the largest bond of the events of es, 0 when there is none
LargestBondOf(es) ==
    IF es = << >> THEN 0
    ELSE LET bonds == {es[i].bondWei : i \in 1..Len(es)}
         IN  CHOOSE b \in bonds : \A c \in bonds : c <= b

\* C22: an event whose market answers isFinalized() = true makes no record:
\* the records pushed are as many as the events of other markets, the count
\* and the largest bond of the result are those of the other events alone,
\* and every record of disputeDetails is of an event that is not finalized
C22_FinalizedNeverCounted ==
    Scored =>
        LET notFinalized ==
                SelectSeq(Decoded, LAMBDA e : e.lookup # "finalized")
            metrics == results[1].metrics
        IN  /\ Len(disputes) = Len(notFinalized)
            /\ metrics.activeDisputes = Min(Len(notFinalized), topDisputes)
            /\ metrics.largestDisputeBond = LargestBondOf(notFinalized)
            /\ \A k \in 1..Len(metrics.disputeDetails) :
                \E i \in 1..Len(notFinalized) :
                    /\ notFinalized[i].market =
                           metrics.disputeDetails[k].marketId
                    /\ notFinalized[i].bondWei =
                           metrics.disputeDetails[k].disputeBondSize

\* the largest bond collected is of a finalized market, and the result
\* written reports a smaller one
C22_Witness ==
    /\ Succeeded
    /\ Scored
    /\ results[1].metrics.largestDisputeBond > 0
    /\ \E i \in 1..Len(Decoded) :
        /\ Decoded[i].lookup = "finalized"
        /\ Decoded[i].bondWei > results[1].metrics.largestDisputeBond

\* C23: an event whose market lookup throws is kept: the records pushed are,
\* in order, those of the decoded events that are not finalized, the ones
\* after a failed lookup included; the record of a failed lookup has
\* disputeRound 1 and the decoded bond, and the largest bond of the result is
\* at least that bond
C23_FailedLookupKeepsRecord ==
    Scored =>
        LET kept == SelectSeq(Decoded, LAMBDA e : e.lookup # "finalized")
        IN  /\ Len(disputes) = Len(kept)
            /\ \A i \in 1..Len(kept) :
                /\ disputes[i].marketId = kept[i].market
                /\ disputes[i].disputeBondSize = kept[i].bondWei
                /\ kept[i].lookup = "throws" =>
                    /\ disputes[i].disputeRound = 1
                    /\ results[1].metrics.largestDisputeBond
                           >= kept[i].bondWei

\* the largest bond of the result written is of a market whose lookup threw,
\* its record has round 1 where the estimate is larger, and an event after
\* it made a record too
C23_Witness ==
    /\ Succeeded
    /\ Scored
    /\ results[1].metrics.disputeDetails # << >>
    /\ results[1].metrics.disputeDetails[1].disputeRound = 1
    /\ EstimateRound(results[1].metrics.largestDisputeBond) > 1
    /\ \E i \in 1..Len(Decoded) - 1 :
        /\ Decoded[i].lookup = "throws"
        /\ Decoded[i].bondWei = results[1].metrics.largestDisputeBond
        /\ Decoded[i + 1].lookup = "active"

\* max(1, ceil(log2(bond / 625))) by its meaning: 1 up to twice the initial
\* bond, and above it the r with 625 * 2^(r-1) < bond <= 625 * 2^r
RoundOfBond(bondWei) ==
    IF bondWei <= 2 * Rep(625) THEN 1
    ELSE CHOOSE r \in 2..16 :
            /\ Rep(625) * 2^(r - 1) < bondWei
            /\ bondWei <= Rep(625) * 2^r

\* C24: the record of an event whose market lookup succeeds and is not
\* finalized has disputeRound = max(1, ceil(log2(bond / 625))), and every
\* record of every artifact has disputeRound >= 1
C24_RoundEstimate ==
    /\ Scored =>
        LET kept == SelectSeq(Decoded, LAMBDA e : e.lookup # "finalized")
        IN  \A i \in 1..Len(kept) :
                /\ i <= Len(disputes)
                /\ kept[i].lookup = "active" =>
                    disputes[i].disputeRound = RoundOfBond(kept[i].bondWei)
    /\ \A k \in 1..Len(saveAttempts) :
        \A i \in 1..Len(saveAttempts[k].metrics.disputeDetails) :
            saveAttempts[k].metrics.disputeDetails[i].disputeRound >= 1

\* the artifact written has the record of a bond of 0 REP, with round 1
C24_Witness ==
    /\ Succeeded
    /\ Scored
    /\ Len(file[1].metrics.disputeDetails) = 1
    /\ file[1].metrics.disputeDetails[1].disputeBondSize = 0
    /\ file[1].metrics.disputeDetails[1].disputeRound = 1
    /\ Decoded[1].lookup = "active"

\* C25: getActiveDisputes returns at most 10 records, in non-increasing
\* order of bond, each of them a record that qualified and none of those
\* left out larger than the smallest returned; activeDisputes is the length
\* of the list returned, and disputeDetails has min(activeDisputes, 5) records
C25_ReturnedListIsCappedAndSorted ==
    Scored =>
        LET r == returnedDisputes
            n == Len(r)
            metrics == results[1].metrics
        IN  /\ n <= 10
            /\ n = Min(Len(disputes), 10)
            /\ \A i \in 1..n - 1 :
                r[i].disputeBondSize >= r[i + 1].disputeBondSize
            /\ \A i \in 1..n :
                Cardinality({j \in 1..n : r[j] = r[i]})
                    <= Cardinality({j \in 1..Len(disputes) :
                                       disputes[j] = r[i]})
            /\ n > 0 =>
                Cardinality({j \in 1..Len(disputes) :
                    disputes[j].disputeBondSize > r[n].disputeBondSize})
                  = Cardinality({j \in 1..n :
                        r[j].disputeBondSize > r[n].disputeBondSize})
            /\ metrics.activeDisputes = n
            /\ metrics.activeDisputes <= 10
            /\ Len(metrics.disputeDetails) = Min(metrics.activeDisputes, 5)

\* twelve records qualified: ten were returned and five persisted
C25_Witness ==
    /\ Succeeded
    /\ Scored
    /\ Len(disputes) = 12
    /\ Len(returnedDisputes) = 10
    /\ file[1].metrics.activeDisputes = 10
    /\ Len(file[1].metrics.disputeDetails) = 5

\* C26: the fork check is issued after connection and binding and before
\* any log query; when it answers true the run issues no chunk query and no
\* market lookup, and the result is the fixed one, whose disputeDetails is
\* the one marker record of marketId FORKING
C26_ForkCheckComesFirst ==
    /\ forkCheck # "none" =>
        /\ connection # << >>
        /\ contracts = {"universe", "augur", "repV2Token", "cash"}
        /\ blockNumber # << >>
    /\ forkCheck # "false" =>
        /\ pc \notin {"getActiveDisputes", "queryFilter", "processEvent"}
        /\ currentBlock = 0
        /\ inFlight = {}
        /\ queried = << >>
        /\ allEvents = << >>
        /\ evIdx = 0
        /\ disputes = << >>
    /\ forkCheck = "true" =>
        /\ results # << >>
        /\ results[1].riskLevel = "critical"
        /\ Len(results[1].metrics.disputeDetails) = 1
        /\ results[1].metrics.disputeDetails[1].marketId = "FORKING"
        /\ results[1].calculation.method = "Fork Detected"

\* the universe is forking while the chain holds dispute events: the fixed
\* result was written and no event was looked at
C26_Witness ==
    /\ forkCheck = "true"
    /\ chain # << >>
    /\ pc = "exit"
    /\ exitCode = 0
    /\ file = <<getForkingResult(HeadBlock, connection[1])>>

\* C27: failed chunk queries and failed market lookups never change the
\* class of the outcome: once the fork check has answered, only a failed
\* write brings main to its catch, and a run whose writes all completed has
\* written the result, with a level other than unknown and no error, and
\* exits with code 0
C27_RecoverableFailuresKeepSuccess ==
    forkCheck \in {"true", "false"} =>
        /\ pc = "catch" => saveAttempts # << >> /\ written = << >>
        /\ pc = "exit" /\ Len(written) = Len(saveAttempts) =>
            /\ exitCode = 0
            /\ file = results
            /\ file[1].riskLevel # "unknown"
            /\ file[1].error = << >>

\* every chunk query of the window failed and the run exited with code 0
C27_Witness ==
    /\ pc = "exit"
    /\ exitCode = 0
    /\ Len(queried) = NumChunks
    /\ \A i \in 1..Len(queried) : ~queried[i].ok
    /\ file = results
    /\ file[1].riskLevel = "low"

GaugeLabel(level) ==
    CASE level = "low" -> "LOW"
      [] level = "moderate" -> "MODERATE"
      [] level = "high" -> "HIGH"
      [] level = "critical" -> "CRITICAL"

\* C29: for a percentage in [0, 100] the level the script assigns is the
\* tier the gauge and the demo data generator derive from the same
\* percentage
C29_ScriptAndPageAgreeOnTiers ==
    Scored =>
        LET p == ThresholdPercent(results[1].metrics.largestDisputeBond)
        IN  p <= Pct(100) =>
                /\ GaugeLabel(results[1].riskLevel) = getRiskLevel(p)
                /\ results[1].riskLevel = demoRiskLevel(p)

\* C30: once no fetch of resetToLive is pending, isDemo = false implies that
\* the data displayed are not demo data
C30_NotDemoMeansLiveData ==
    fetching = 0 /\ parsing = 0 /\ ~isDemo => data.source # "demo"

=============================================================================
